---- MODULE Spec2Model ----
(***************************************************************************)
(* Model of recsys/dlrm_main_pipeline.py (the batch placement adapter      *)
(* put_data_in_device and the pipelined engine TrainPipelineBase) and of   *)
(* the all-to-all exchange exercised by tests/test_comm.py.                *)
(***************************************************************************)
EXTENDS Integers, Sequences, FiniteSets, TLC

\* ------------------------------------------------------------------ bounds
MaxBatches == 3     \* longest source iterator
MaxRows == 4        \* largest leading (batch) dimension of a source batch
MaxWorld == 3       \* largest world size
MaxExt == 4         \* largest extent of a per-worker tensor in the exchange
MaxCalls == 4       \* progress() calls made on one engine
MaxResets == 1      \* reset() calls made on one engine

VARIABLES
    \* ---- the run's configuration (arguments of progress / the constructor)
    n_batches,          \* length of the source behind dataloader_iter
    batch_rows,         \* leading dimension B of every source batch
    is_dist,            \* use_distributed_dataloader
    rank, world_size,   \* torch.distributed rank / world size
    training,           \* self._model.training
    dense_device,       \* self._dense_device
    sparse_device,      \* self._sparse_device
    \* ---- objects
    heap,               \* Batch objects by identity (mutated in place)
    data_iter,          \* position of dataloader_iter: batches pulled so far
    self_cur_batch,     \* self._cur_batch
    self_connected,     \* self._connected
    self_connect,       \* what the attribute self._connect is bound to
    \* ---- the running progress() call
    pc,                 \* position inside progress(), "idle" between calls
    cur_batch,          \* local cur_batch (of _connect, then of progress)
    next_batch,         \* local next_batch
    memcpy_work,        \* work enqueued on self._memcpy_stream, not yet retired
    issued,             \* ids of the batches whose placement has been issued
    events,             \* what the current call has done so far, in order
    \* ---- observations
    consumed,           \* the batches handed to self._model, in order
    raised,             \* exception that ended the last call, "none" if it returned
    calls,              \* progress() calls started
    ok_calls,           \* progress() calls that returned normally
    stop_call,          \* index of the first call that raised StopIteration, 0 if none
    resets,             \* reset() calls made
    last_op,            \* the engine method called last: "none", "progress", "reset"
    \* ---- put_data_in_device applied on every rank to its copy of one batch
    pl_out,             \* rank -> what the call returned, None before the call
    \* ---- one all-to-all exchange over the group
    a2a_dims,           \* <<scatter_dim, gather_dim>>
    a2a_in,             \* worker -> its input tensor (a matrix)
    a2a_pc,             \* worker -> "start", "sent", "done" or "ShapeError"
    a2a_mail,           \* <<source, destination>> -> chunk in flight
    a2a_out,            \* worker -> its output tensor, None until it has one
    a2a_call,           \* the call under way: "forward", then "inverse" or "backward"
    a2a_first_in,       \* worker -> the input of its first call
    a2a_first_out,      \* worker -> the output of its first call
    \* ---- train_val_test and the phase loops of _train / _evaluate
    dr_pc,              \* position of the driver, "off" when no driver runs
    dr_epochs,          \* args.epochs
    dr_epoch,           \* the loop variable epoch
    dr_len,             \* stage -> length of its data loader
    dr_log,             \* the phase loops that ended by break, in order
    train_val_test_results, \* the TrainValTestResults object
    \* ---- the workers of the group, each in the phase loop of one phase
    g_len,              \* worker -> length of its data loader
    g_pc,               \* worker -> its position in the loop and in progress()
    g_iter,             \* worker -> batches it has pulled
    g_connected,        \* worker -> its engine's self._connected
    g_slot,             \* worker -> kind of its engine's self._cur_batch
    g_joined,           \* worker -> collective calls it has entered
    g_fwd               \* worker -> forward computations it has completed

cfgVars == <<n_batches, batch_rows, is_dist, rank, world_size, training,
             dense_device, sparse_device>>
engVars == <<heap, data_iter, self_cur_batch, self_connected, self_connect, pc,
             cur_batch, next_batch, memcpy_work, issued, events, consumed, raised,
             calls, ok_calls, stop_call, resets, last_op>>
plVars == <<pl_out>>
a2aHist == <<a2a_call, a2a_first_in, a2a_first_out>>
a2aVars == <<a2a_dims, a2a_in, a2a_pc, a2a_mail, a2a_out, a2aHist>>
drVars == <<dr_pc, dr_epochs, dr_epoch, dr_len, dr_log, train_val_test_results>>
grpVars == <<g_len, g_pc, g_iter, g_connected, g_slot, g_joined, g_fwd>>
vars == <<cfgVars, engVars, plVars, a2aVars, drVars, grpVars>>
\* What the engine's steps leave alone.
frameVars == <<cfgVars, plVars, a2aVars, drVars, grpVars>>

\* ----------------------------------------------------------------- tensors
Devices == {"cpu", "cuda"}

Min(a, b) == IF a < b THEN a ELSE b

\* A tensor is its rows along dim 0 and the device that holds it.
Tensor(rows, device) == [rows |-> rows, device |-> device]

\* Tensor.to(device): same rows, on the target device.
To(t, device) == [t EXCEPT !.device = device]

\* Mutant: the boundaries of torch.chunk, whose chunks all have the size
\* ceil(n / sections) until the rows run out.
SplitStart_chunk(n, sections, r) == Min(n, r * ((n + sections - 1) \div sections))

\* First row (0-based) of shard r of torch.tensor_split(t, sections, dim=0):
\* the first (n mod sections) shards hold one row more than the others.
SplitStart(n, sections, r) == r * (n \div sections) + Min(r, n % sections)

\* Mutant: torch.split(t, sections)[r], which cuts pieces of `sections` rows
\* instead of cutting `sections` pieces.
tensor_split_as_split(t, sections, r) ==
    [t EXCEPT !.rows = SubSeq(t.rows, r * sections + 1,
                              Min(Len(t.rows), (r + 1) * sections))]

\* torch.tensor_split(t, sections, dim=0)[r]
tensor_split(t, sections, r) ==
    [t EXCEPT !.rows = SubSeq(t.rows,
                              SplitStart(Len(t.rows), sections, r) + 1,
                              SplitStart(Len(t.rows), sections, r + 1))]

\* Row k of batch i; the same identity names the dense row, the label and
\* the sparse indices of that sample.
Row(i, k) == <<i, k>>

\* The Batch the data loader yields as its i-th item: B rows, on the host.
Batch(i, B) ==
    [id |-> i,
     dense_features |-> Tensor([k \in 1..B |-> Row(i, k)], "cpu"),
     sparse_features |-> Tensor([k \in 1..B |-> Row(i, k)], "cpu"),
     labels |-> Tensor([k \in 1..B |-> Row(i, k)], "cpu")]

\* put_data_in_device(batch, dense_device, sparse_device, is_dist, rank,
\* world_size): the distributed branch returns a plain tuple of three moved
\* tensors; the other branch overwrites the fields of the Batch and returns it.
put_data_in_device(batch, dense_dev, sparse_dev, dist, r, ws) ==
    IF dist
    THEN [kind |-> "tuple", id |-> batch.id,
          dense_features |-> To(batch.dense_features, dense_dev),
          sparse_features |-> To(batch.sparse_features, sparse_dev),
          labels |-> To(batch.labels, dense_dev)]
    ELSE [kind |-> "Batch", id |-> batch.id,
          dense_features |-> tensor_split(To(batch.dense_features, dense_dev), ws, r),
          sparse_features |-> To(batch.sparse_features, sparse_dev),
          labels |-> tensor_split(To(batch.labels, dense_dev), ws, r)]

\* --------------------------------------------------------------- references
None == [kind |-> "None"]
Ref(i) == [kind |-> "Batch", id |-> i]

\* The Batch object a placement result leaves in the heap: the in-place
\* branch rewrites the object, the tuple branch leaves it alone.
Stored(old, placed) ==
    IF placed.kind = "Batch"
    THEN [id |-> old.id,
          dense_features |-> placed.dense_features,
          sparse_features |-> placed.sparse_features,
          labels |-> placed.labels]
    ELSE old

\* Mutant: put_data_in_device falls off its end without a return statement.
Returned_nothing(placed) == None

\* The value put_data_in_device hands back to its caller.
Returned(placed) == IF placed.kind = "Batch" THEN Ref(placed.id) ELSE placed

\* self._memcpy_stream: a stream only when the sparse device is a CUDA device.
HasMemcpyStream == sparse_device = "cuda"

\* Mutant: the primary stream goes on without joining the staging stream.
wait_stream_nojoin(work) == work

\* torch.cuda.current_stream().wait_stream(stream): everything enqueued on the
\* staging stream so far retires before the primary stream goes on.
wait_stream(work) == << >>

\* Work issued inside `with torch.cuda.stream(self._memcpy_stream)`: it goes
\* to the staging stream when there is one, else to the primary stream.
Enqueue(work, i) == IF HasMemcpyStream THEN Append(work, i) ELSE work

\* ------------------------------------------------------------------- Init
EngineInit ==
    /\ heap = [i \in 1..n_batches |-> Batch(i, batch_rows)]
    /\ data_iter = 0
    /\ self_cur_batch = None
    /\ self_connected = FALSE
    /\ self_connect = "method"
    /\ pc = "idle"
    /\ cur_batch = None
    /\ next_batch = None
    /\ memcpy_work = << >>
    /\ issued = {}
    /\ events = << >>
    /\ consumed = << >>
    /\ raised = "none"
    /\ calls = 0
    /\ ok_calls = 0
    /\ stop_call = 0
    /\ resets = 0
    /\ last_op = "none"

\* No placement run and no exchange are under way.
PlaceIdle == pl_out = << >>

A2AIdle ==
    /\ a2a_dims = <<0, 1>>
    /\ a2a_in = << >>
    /\ a2a_pc = << >>
    /\ a2a_mail = << >>
    /\ a2a_out = << >>
    /\ a2a_call = "forward"
    /\ a2a_first_in = << >>
    /\ a2a_first_out = << >>

\* A fresh TrainValTestResults: two empty lists and two None fields.
TrainValTestResults ==
    [val_accuracies |-> << >>, val_aurocs |-> << >>,
     test_accuracy |-> None, test_auroc |-> None]

\* No driver is running.
DriverIdle ==
    /\ dr_pc = "off"
    /\ dr_epochs = 0
    /\ dr_epoch = 0
    /\ dr_len = << >>
    /\ dr_log = << >>
    /\ train_val_test_results = TrainValTestResults

\* No group of workers is running.
GroupIdle ==
    /\ g_len = << >>
    /\ g_pc = << >>
    /\ g_iter = << >>
    /\ g_connected = << >>
    /\ g_slot = << >>
    /\ g_joined = << >>
    /\ g_fwd = << >>

Init ==
    /\ n_batches \in 0..MaxBatches
    /\ batch_rows \in 1..MaxRows
    /\ is_dist \in BOOLEAN
    /\ world_size \in 1..MaxWorld
    /\ rank \in 0..(world_size - 1)
    /\ training \in BOOLEAN
    /\ dense_device \in Devices
    /\ sparse_device \in Devices
    /\ EngineInit
    /\ PlaceIdle
    /\ A2AIdle
    /\ DriverIdle
    /\ GroupIdle

\* ---------------------------------------------------------------- actions
\* An exception leaves progress(): the frame's locals are dropped.
Raise(exc) ==
    /\ raised' = exc
    /\ pc' = "idle"
    /\ cur_batch' = None
    /\ next_batch' = None
    /\ stop_call' = IF exc = "StopIteration" /\ stop_call = 0 THEN calls ELSE stop_call

\* reset(): assigns the attribute _connect (not _connected) and empties the slot.
Reset ==
    /\ pc = "idle"
    /\ resets < MaxResets
    /\ self_connect' = "False"
    /\ self_cur_batch' = None
    /\ resets' = resets + 1
    /\ last_op' = "reset"
    /\ UNCHANGED <<frameVars, heap, data_iter, self_connected, pc, cur_batch,
                   next_batch, memcpy_work, issued, events, consumed, raised,
                   calls, ok_calls, stop_call>>

\* progress() is entered: `if not self._connected: self._connect(...)`.
ProgressEnter ==
    /\ pc = "idle"
    /\ calls < MaxCalls
    /\ calls' = calls + 1
    /\ last_op' = "progress"
    /\ events' = << >>
    /\ IF self_connected
       THEN /\ pc' = "next_batch"
            /\ raised' = "none"
            /\ UNCHANGED <<cur_batch, next_batch, stop_call>>
       ELSE IF self_connect = "method"
            THEN /\ pc' = "connect_next"
                 /\ raised' = "none"
                 /\ UNCHANGED <<cur_batch, next_batch, stop_call>>
            ELSE \* self._connect is the bool False: calling it is a TypeError
                 /\ raised' = "TypeError"
                 /\ pc' = "idle"
                 /\ UNCHANGED <<cur_batch, next_batch, stop_call>>
    /\ UNCHANGED <<frameVars, heap, data_iter, self_cur_batch, self_connected,
                   self_connect, memcpy_work, issued, consumed, ok_calls, resets>>

\* Mutant: _connect looks at the first batch without taking it off the iterator.
ConnectNextPeek ==
    /\ pc = "connect_next"
    /\ IF data_iter < n_batches
       THEN /\ cur_batch' = Ref(data_iter + 1)
            /\ self_cur_batch' = Ref(data_iter + 1)
            /\ pc' = "connect_put"
            /\ events' = Append(events, "connect_next")
            /\ UNCHANGED <<data_iter, next_batch, raised, stop_call>>
       ELSE /\ Raise("StopIteration")
            /\ UNCHANGED <<data_iter, self_cur_batch, events>>
    /\ UNCHANGED <<frameVars, last_op, heap, self_connected, self_connect,
                   memcpy_work, issued, consumed, calls, ok_calls, resets>>

\* _connect: cur_batch = next(dataloader_iter); self._cur_batch = cur_batch
ConnectNext ==
    /\ pc = "connect_next"
    /\ IF data_iter < n_batches
       THEN /\ data_iter' = data_iter + 1
            /\ cur_batch' = Ref(data_iter + 1)
            /\ self_cur_batch' = Ref(data_iter + 1)
            /\ pc' = "connect_put"
            /\ events' = Append(events, "connect_next")
            /\ UNCHANGED <<next_batch, raised, stop_call>>
       ELSE /\ Raise("StopIteration")
            /\ UNCHANGED <<data_iter, self_cur_batch, events>>
    /\ UNCHANGED <<frameVars, last_op, heap, self_connected, self_connect, memcpy_work,
                   issued, consumed, calls, ok_calls, resets>>

\* _connect: the first batch is placed on the staging stream, with the sparse
\* device passed in the dense_device position and the other way round;
\* then self._connected = True and _connect returns.
ConnectPut ==
    /\ pc = "connect_put"
    /\ LET placed == put_data_in_device(heap[cur_batch.id], sparse_device,
                                        dense_device, is_dist, rank, world_size)
       IN /\ heap' = [heap EXCEPT ![cur_batch.id] = Stored(@, placed)]
          /\ self_cur_batch' = Returned(placed)
    /\ memcpy_work' = Enqueue(memcpy_work, cur_batch.id)
    /\ issued' = issued \cup {cur_batch.id}
    /\ self_connected' = TRUE
    /\ cur_batch' = None
    /\ events' = Append(events, "connect_put")
    /\ pc' = "next_batch"
    /\ UNCHANGED <<frameVars, last_op, data_iter, self_connect, next_batch, consumed,
                   raised, calls, ok_calls, stop_call, resets>>

\* progress: next_batch = next(dataloader_iter)
NextBatch ==
    /\ pc = "next_batch"
    /\ IF data_iter < n_batches
       THEN /\ data_iter' = data_iter + 1
            /\ next_batch' = Ref(data_iter + 1)
            /\ pc' = "zero_grad"
            /\ events' = Append(events, "next_batch")
            /\ UNCHANGED <<cur_batch, raised, stop_call>>
       ELSE /\ Raise("StopIteration")
            /\ UNCHANGED <<data_iter, events>>
    /\ UNCHANGED <<frameVars, last_op, heap, self_cur_batch, self_connected, self_connect,
                   memcpy_work, issued, consumed, calls, ok_calls, resets>>

\* progress: cur_batch = self._cur_batch; assert cur_batch is not None;
\* if self._model.training: self._model.zero_grad()
ZeroGrad ==
    /\ pc = "zero_grad"
    /\ IF self_cur_batch = None
       THEN /\ Raise("AssertionError")
            /\ UNCHANGED events
       ELSE /\ cur_batch' = self_cur_batch
            /\ events' = IF training THEN Append(events, "zero_grad") ELSE events
            /\ pc' = "wait_for_batch"
            /\ UNCHANGED <<next_batch, raised, stop_call>>
    /\ UNCHANGED <<frameVars, last_op, heap, data_iter, self_cur_batch, self_connected,
                   self_connect, memcpy_work, issued, consumed, calls, ok_calls,
                   resets>>

\* _wait_for_batch(cur_batch, self._memcpy_stream): nothing without a stream;
\* else the primary stream joins the staging stream and the batch is told
\* its new stream, which a tuple cannot be (it has no record_stream).
WaitForBatch ==
    /\ pc = "wait_for_batch"
    /\ IF ~HasMemcpyStream
       THEN /\ pc' = "forward"
            /\ UNCHANGED <<memcpy_work, events, cur_batch, next_batch, raised,
                           stop_call>>
       ELSE /\ memcpy_work' = wait_stream(memcpy_work)
            /\ IF cur_batch.kind = "Batch"
               THEN /\ events' = events \o <<"wait_stream", "record_stream">>
                    /\ pc' = "forward"
                    /\ UNCHANGED <<cur_batch, next_batch, raised, stop_call>>
               ELSE /\ events' = Append(events, "wait_stream")
                    /\ Raise("AttributeError")
    /\ UNCHANGED <<frameVars, last_op, heap, data_iter, self_cur_batch, self_connected,
                   self_connect, issued, consumed, calls, ok_calls, resets>>

\* What the model is called with: the tensors of cur_batch as they are now,
\* and whether staging work for that batch is still on the staging stream.
Snapshot(b, work) ==
    [id |-> b.id,
     dense_features |-> b.dense_features,
     sparse_features |-> b.sparse_features,
     labels |-> b.labels,
     pending |-> \E k \in 1..Len(work) : work[k] = b.id]

\* progress: preds = self._model(cur_batch.dense_features,
\* cur_batch.sparse_features).squeeze(); every metric is updated.
Forward ==
    /\ pc = "forward"
    /\ IF cur_batch.kind = "Batch"
       THEN /\ consumed' = Append(consumed, Snapshot(heap[cur_batch.id], memcpy_work))
            /\ events' = events \o <<"forward", "metrics">>
            /\ pc' = "backward"
            /\ UNCHANGED <<cur_batch, next_batch, raised, stop_call>>
       ELSE \* a tuple has no attribute dense_features
            /\ Raise("AttributeError")
            /\ UNCHANGED <<consumed, events>>
    /\ UNCHANGED <<frameVars, last_op, heap, data_iter, self_cur_batch, self_connected,
                   self_connect, memcpy_work, issued, calls, ok_calls, resets>>

\* progress: if training, the loss is computed and losses.backward() runs.
Backward ==
    /\ pc = "backward"
    /\ events' = IF training THEN events \o <<"criterion", "backward">> ELSE events
    /\ pc' = "set_cur"
    /\ UNCHANGED <<frameVars, last_op, heap, data_iter, self_cur_batch, self_connected,
                   self_connect, cur_batch, next_batch, memcpy_work, issued,
                   consumed, raised, calls, ok_calls, stop_call, resets>>

\* progress: self._cur_batch = next_batch
SetCur ==
    /\ pc = "set_cur"
    /\ self_cur_batch' = next_batch
    /\ pc' = "copy_batch_to_gpu"
    /\ UNCHANGED <<frameVars, last_op, heap, data_iter, self_connected, self_connect,
                   cur_batch, next_batch, memcpy_work, issued, events, consumed,
                   raised, calls, ok_calls, stop_call, resets>>

\* progress: self._cur_batch = put_data_in_device(cur_batch, ...), issued on
\* the staging stream: the argument is cur_batch, the batch just consumed,
\* and the devices are passed as in _connect.
CopyBatchToGpu ==
    /\ pc = "copy_batch_to_gpu"
    /\ LET placed == put_data_in_device(heap[cur_batch.id], sparse_device,
                                        dense_device, is_dist, rank, world_size)
       IN /\ heap' = [heap EXCEPT ![cur_batch.id] = Stored(@, placed)]
          /\ self_cur_batch' = Returned(placed)
    /\ memcpy_work' = Enqueue(memcpy_work, cur_batch.id)
    /\ issued' = issued \cup {cur_batch.id}
    /\ events' = Append(events, "copy_batch_to_gpu")
    /\ pc' = "optimizer"
    /\ UNCHANGED <<frameVars, last_op, data_iter, self_connected, self_connect, cur_batch,
                   next_batch, consumed, raised, calls, ok_calls, stop_call,
                   resets>>

\* progress: if training, self._optimizer.step(); then progress returns.
OptimizerStep ==
    /\ pc = "optimizer"
    /\ events' = IF training THEN Append(events, "optimizer") ELSE events
    /\ pc' = "idle"
    /\ cur_batch' = None
    /\ next_batch' = None
    /\ ok_calls' = ok_calls + 1
    /\ UNCHANGED <<frameVars, last_op, heap, data_iter, self_cur_batch, self_connected,
                   self_connect, memcpy_work, issued, consumed, raised, calls,
                   stop_call, resets>>

\* The staging stream runs on its own: its oldest work item retires.
StagingCompletes ==
    /\ memcpy_work # << >>
    /\ memcpy_work' = Tail(memcpy_work)
    /\ UNCHANGED <<frameVars, last_op, heap, data_iter, self_cur_batch, self_connected,
                   self_connect, pc, cur_batch, next_batch, issued, events,
                   consumed, raised, calls, ok_calls, stop_call, resets>>

Next ==
    \/ Reset
    \/ ProgressEnter
    \/ ConnectNext
    \/ ConnectPut
    \/ NextBatch
    \/ ZeroGrad
    \/ WaitForBatch
    \/ Forward
    \/ Backward
    \/ SetCur
    \/ CopyBatchToGpu
    \/ OptimizerStep
    \/ StagingCompletes

Spec == Init /\ [][Next]_vars

\* ------------------------------------------------- properties of the engine
\* Identities of the batches the engine refers to: its slot and the locals
\* of the running call.
HeldIds == {b.id : b \in {x \in {self_cur_batch, cur_batch, next_batch} : x.kind # "None"}}

\* Position of the first occurrence of event e in the current call, 0 if none.
EventAt(e) ==
    IF \E k \in 1..Len(events) : events[k] = e
    THEN CHOOSE k \in 1..Len(events) :
            events[k] = e /\ \A j \in 1..(k - 1) : events[j] # e
    ELSE 0

\* The rows of source batch i as the loader yields them.
SourceRows(i) == [k \in 1..batch_rows |-> Row(i, k)]

\* C1 (as claimed): on a fresh engine the k-th forward computation runs on
\* the k-th batch of the source, so every batch is consumed once, in source
\* order, none twice and none skipped.
C1_ConsumedInSourceOrder ==
    resets = 0 => \A k \in 1..Len(consumed) : consumed[k].id = k

\* C2 (as claimed): with world size 1 a source of n >= 1 batches admits n
\* successful progress() calls, and StopIteration is first raised by call n + 1.
C2_StopAfterNCalls ==
    (resets = 0 /\ world_size = 1 /\ ~is_dist /\ n_batches >= 1 /\ stop_call # 0)
        => (stop_call = n_batches + 1 /\ ok_calls >= n_batches)

\* C2 (amended): on a fresh engine over a source of n >= 1 batches the first
\* call pulls two batches, so StopIteration is first raised by call n, by every
\* call from the n-th on, and never earlier; at most n - 1 calls return
\* normally, and exactly the first n - 1 do with world size 1 and a loader
\* that is not distributed.
C2_StopOnCallN ==
    (resets = 0 /\ n_batches >= 1)
        => /\ stop_call # 0 => stop_call = n_batches
           /\ (pc = "idle" /\ calls >= n_batches) => (stop_call = n_batches /\ raised = "StopIteration")
           /\ ok_calls <= n_batches - 1
           /\ (world_size = 1 /\ ~is_dist /\ pc = "idle")
                 => ok_calls = Min(calls, n_batches - 1)

C2_Witness ==
    /\ resets = 0 /\ world_size = 1 /\ ~is_dist /\ n_batches = 3
    /\ pc = "idle" /\ calls = 4 /\ stop_call = 3 /\ ok_calls = 2
    /\ raised = "StopIteration"

\* C3 (as claimed): every forward computation is preceded, in the same
\* progress() call, by a join of the primary stream on the staging stream.
C3_JoinBeforeEveryForward ==
    pc = "backward" => (EventAt("wait_stream") # 0 /\ EventAt("wait_stream") < EventAt("forward"))

\* C3 (amended): the batch a forward computation runs on had its staging
\* issued before (at connect or in the previous call) and none of its staging
\* work is outstanding on the staging stream; when the engine has a staging
\* stream (the sparse device is CUDA) the forward is preceded in the same call
\* by the join, and when it has none no join is made and no work is ever put
\* on a staging stream.
C3_StagedBeforeForward ==
    /\ \A k \in 1..Len(consumed) : ~consumed[k].pending
    /\ pc = "backward" =>
          /\ consumed[Len(consumed)].id \in issued
          /\ sparse_device = "cuda" =>
                (EventAt("wait_stream") # 0 /\ EventAt("wait_stream") < EventAt("forward"))
          /\ sparse_device # "cuda" => (EventAt("wait_stream") = 0 /\ memcpy_work = << >>)

C3_Witness ==
    /\ pc = "backward" /\ sparse_device = "cuda" /\ Len(consumed) = 2
    /\ EventAt("wait_stream") # 0 /\ EventAt("connect_put") = 0

\* C4: at every point, inside progress() too, the engine refers to at most 2
\* batches and at most one staging work item (so at most one batch) is
\* outstanding on the staging stream.
C4_BoundedLookahead ==
    /\ Cardinality(HeldIds) <= 2
    /\ Len(memcpy_work) <= 1

C4_Witness ==
    /\ Cardinality(HeldIds) = 2 /\ Len(memcpy_work) = 1
    /\ pc = "zero_grad" /\ calls >= 2

\* C5 (as claimed): once progress() has raised StopIteration the current-batch
\* slot is empty.
C5_SlotEmptyAfterStop ==
    (pc = "idle" /\ last_op = "progress" /\ raised = "StopIteration")
        => self_cur_batch = None

\* C5 (amended): once progress() has raised StopIteration the engine holds no
\* next batch and at most one batch, the one in its current-batch slot: the slot
\* is not emptied and still holds the batch staged last; it is empty only if no
\* batch was ever pulled or reset() has been called.
C5_SlotKeptAfterStop ==
    (pc = "idle" /\ last_op = "progress" /\ raised = "StopIteration")
        => /\ cur_batch = None /\ next_batch = None
           /\ Cardinality(HeldIds) <= 1
           /\ self_cur_batch = None <=> (data_iter = 0 \/ resets > 0)

C5_Witness ==
    /\ pc = "idle" /\ last_op = "progress" /\ raised = "StopIteration"
    /\ self_cur_batch # None /\ ok_calls >= 1 /\ data_iter = n_batches

\* C6 (as claimed): after reset() the engine is unconnected, holds no batch
\* and can connect again (its _connect is still the method).
C6_ResetUnconnects ==
    last_op = "reset"
        => (~self_connected /\ self_cur_batch = None /\ self_connect = "method")

\* C9 (as claimed): with a distributed loader placement hands the engine a
\* Batch with every row of the input, and connect followed by progress() runs
\* the forward computation on that unchanged first batch.
C9_DistBatchUnchanged ==
    (is_dist /\ resets = 0)
        => /\ self_connected => self_cur_batch.kind = "Batch"
           /\ (pc = "idle" /\ calls >= 1 /\ n_batches >= 2)
                 => /\ Len(consumed) >= 1
                    /\ consumed[1].id = 1
                    /\ consumed[1].dense_features.rows = SourceRows(1)
                    /\ consumed[1].sparse_features.rows = SourceRows(1)
                    /\ consumed[1].labels.rows = SourceRows(1)

\* A progress() call has just returned normally.
Returned_ok == pc = "idle" /\ last_op = "progress" /\ raised = "none" /\ calls >= 1

\* Event e happened in the current call, and before event f.
Before(e, f) == EventAt(e) # 0 /\ EventAt(e) < EventAt(f)

\* C16 (as claimed): when a progress() call returns, the batch it staged and
\* left in the current slot is the batch it pulled at its start.
C16_NextBecomesCurrent ==
    Returned_ok
        => /\ self_cur_batch = Ref(data_iter)
           /\ data_iter \in issued

\* C17 (as claimed): a training-mode call pulls the next batch, clears the
\* gradients, joins the staging stream, runs forward and metrics, loss and
\* backward, issues the staging of the following batch, then steps the
\* optimizer, in this order.
C17_TrainingOrder ==
    (training /\ Returned_ok)
        => /\ Before("next_batch", "zero_grad")
           /\ Before("zero_grad", "wait_stream")
           /\ Before("wait_stream", "forward")
           /\ Before("forward", "metrics")
           /\ Before("metrics", "criterion")
           /\ Before("criterion", "backward")
           /\ Before("backward", "copy_batch_to_gpu")
           /\ Before("copy_batch_to_gpu", "optimizer")
           /\ self_cur_batch = Ref(data_iter)

\* C18 (as claimed): a call in evaluation mode clears no gradient, computes no
\* loss, runs no backward pass and no optimizer step, and still pulls the next
\* batch, joins the staging stream, runs forward and metrics and stages the
\* following batch.
C18_EvalFrame ==
    (~training /\ Returned_ok)
        => /\ EventAt("zero_grad") = 0 /\ EventAt("criterion") = 0
           /\ EventAt("backward") = 0 /\ EventAt("optimizer") = 0
           /\ Before("next_batch", "wait_stream")
           /\ Before("wait_stream", "forward")
           /\ Before("forward", "metrics")
           /\ Before("metrics", "copy_batch_to_gpu")
           /\ self_cur_batch = Ref(data_iter)

\* C19 (as claimed): every batch handed to the model has its dense features
\* and labels on the dense device and its sparse features on the sparse device.
C19_DevicesMatch ==
    \A k \in 1..Len(consumed) :
        /\ consumed[k].dense_features.device = dense_device
        /\ consumed[k].labels.device = dense_device
        /\ consumed[k].sparse_features.device = sparse_device

\* C20 (as claimed): without a distributed loader and with world_size
\* dividing B, every batch handed to the model has exactly B / world_size
\* dense rows and labels: the split is applied once, never twice.
C20_SplitOnce ==
    (~is_dist /\ batch_rows % world_size = 0)
        => \A k \in 1..Len(consumed) :
              /\ Len(consumed[k].dense_features.rows) = batch_rows \div world_size
              /\ Len(consumed[k].labels.rows) = batch_rows \div world_size

\* How many times event e happened in the current call.
Count(e) == Cardinality({k \in 1..Len(events) : events[k] = e})

\* C22: an engine that is not reset connects once. The call that connects
\* pulls the first batch and issues its staging before it pulls the next
\* batch; every later call that returns pulled exactly one batch and did not
\* connect; after k >= 1 calls that returned, k + 1 batches have been pulled;
\* the connected flag is set by _connect on the first batch only and is never
\* cleared by a step other than reset().
C22_ConnectsOnce ==
    /\ []((Returned_ok /\ resets = 0)
            => /\ data_iter = ok_calls + 1
               /\ Count("next_batch") = 1
               /\ ok_calls = 1 => /\ Count("connect_next") = 1
                                  /\ Before("connect_next", "connect_put")
                                  /\ Before("connect_put", "next_batch")
                                  /\ 1 \in issued
               /\ ok_calls >= 2 => /\ Count("connect_next") = 0
                                   /\ Count("connect_put") = 0)
    /\ [][(self_connected /\ ~self_connected') => last_op' = "reset"]_vars
    /\ [][(~self_connected /\ self_connected')
              => (pc = "connect_put" /\ data_iter' = 1 /\ calls' = 1)]_vars

\* Two calls have returned on an engine that was never reset: the first one
\* connected, the second one did not, and three batches have been pulled.
C22_Witness ==
    /\ Returned_ok
    /\ resets = 0
    /\ self_connected
    /\ ok_calls = 2
    /\ data_iter = 3
    /\ events[1] = "next_batch"

\* ------------------------------------------------ the driver: train_val_test

MaxEpochs == 2

Stages == {"train", "val", "test"}

\* One run of train_val_test on one worker: args.epochs and the lengths of the
\* three data loaders are the run's inputs; no phase has started.
DriverInit ==
    /\ n_batches = 0
    /\ batch_rows = 1
    /\ is_dist \in BOOLEAN
    /\ world_size = 1
    /\ rank = 0
    /\ training = TRUE
    /\ dense_device = "cuda"
    /\ sparse_device \in Devices
    /\ EngineInit
    /\ PlaceIdle
    /\ A2AIdle
    /\ GroupIdle
    /\ dr_pc = "epoch_loop"
    /\ dr_epochs \in 0..MaxEpochs
    /\ dr_epoch = 0
    /\ dr_len \in [Stages -> 0..MaxBatches]
    /\ dr_log = << >>
    /\ train_val_test_results = TrainValTestResults

\* The head of _train / _evaluate: model.train() or model.eval(), a fresh
\* iterator over the stage's loader and a fresh TrainPipelineBase.
StartPhase(stage) ==
    /\ dr_pc' = stage
    /\ training' = (stage = "train")
    /\ n_batches' = dr_len[stage]
    /\ heap' = [i \in 1..dr_len[stage] |-> Batch(i, batch_rows)]
    /\ data_iter' = 0
    /\ self_cur_batch' = None
    /\ self_connected' = FALSE
    /\ self_connect' = "method"
    /\ pc' = "idle"
    /\ cur_batch' = None
    /\ next_batch' = None
    /\ memcpy_work' = << >>
    /\ issued' = {}
    /\ events' = << >>
    /\ consumed' = << >>
    /\ raised' = "none"
    /\ calls' = 0
    /\ ok_calls' = 0
    /\ stop_call' = 0
    /\ resets' = 0
    /\ last_op' = "none"
    /\ UNCHANGED <<batch_rows, is_dist, rank, world_size, dense_device, sparse_device>>

\* `for epoch in range(args.epochs)`: the next epoch starts with _train; after
\* the last one the loop is left and _evaluate runs on the test loader.
EpochLoop ==
    /\ dr_pc = "epoch_loop"
    /\ IF dr_epoch < dr_epochs THEN StartPhase("train") ELSE StartPhase("test")
    /\ UNCHANGED <<plVars, a2aVars, grpVars, dr_epochs, dr_epoch, dr_len, dr_log,
                   train_val_test_results>>

\* The body of the phase loop: pipe.progress(...) is called.
DriverCall ==
    /\ dr_pc \in Stages
    /\ raised = "none"
    /\ ProgressEnter

\* Mutant: the except clause re-raises StopIteration.
DriverCatch_reraise ==
    /\ dr_pc \in Stages
    /\ pc = "idle"
    /\ raised = "StopIteration"
    /\ dr_pc' = "error"
    /\ UNCHANGED <<cfgVars, engVars, plVars, a2aVars, grpVars, dr_epochs, dr_epoch, dr_len,
                   dr_log, train_val_test_results>>

\* `except StopIteration: break`: the phase loop is left.
DriverCatch ==
    /\ dr_pc \in Stages
    /\ pc = "idle"
    /\ raised = "StopIteration"
    /\ dr_pc' = IF dr_pc = "train" THEN "train_ret"
                ELSE IF dr_pc = "val" THEN "val_ret" ELSE "test_ret"
    /\ dr_log' = Append(dr_log, [stage |-> dr_pc, epoch |-> dr_epoch,
                                 ok_calls |-> ok_calls])
    /\ UNCHANGED <<cfgVars, engVars, plVars, a2aVars, grpVars, dr_epochs, dr_epoch, dr_len,
                   train_val_test_results>>

\* Any other exception leaves the phase loop, the phase and train_val_test.
DriverPropagate ==
    /\ dr_pc \in Stages
    /\ pc = "idle"
    /\ raised \notin {"none", "StopIteration"}
    /\ dr_pc' = "error"
    /\ UNCHANGED <<cfgVars, engVars, plVars, a2aVars, grpVars, dr_epochs, dr_epoch, dr_len,
                   dr_log, train_val_test_results>>

\* metric.compute(): the value of a metric that forward updated n times.
Compute(metric, stage, n) == [metric |-> metric, stage |-> stage, updates |-> n]

\* What _evaluate returns: (auroc_res, accuracy_res).
EvaluateResult(stage) ==
    <<Compute("auroc", stage, Len(consumed)), Compute("accuracy", stage, Len(consumed))>>

\* _train returns (nothing); _evaluate starts on the validation loader.
TrainReturns ==
    /\ dr_pc = "train_ret"
    /\ StartPhase("val")
    /\ UNCHANGED <<plVars, a2aVars, grpVars, dr_epochs, dr_epoch, dr_len, dr_log,
                   train_val_test_results>>

\* Mutant: the validation result is not appended to the AUROC history.
ValReturns_noHistory ==
    /\ dr_pc = "val_ret"
    /\ train_val_test_results' =
            [train_val_test_results EXCEPT
                !.val_accuracies = Append(@, EvaluateResult("val")[1])]
    /\ dr_epoch' = dr_epoch + 1
    /\ dr_pc' = "epoch_loop"
    /\ UNCHANGED <<cfgVars, engVars, plVars, a2aVars, grpVars, dr_epochs, dr_len, dr_log>>

\* `val_accuracy, val_auroc = _evaluate(...)` and the two appends.
ValReturns ==
    /\ dr_pc = "val_ret"
    /\ LET val_accuracy == EvaluateResult("val")[1]
           val_auroc == EvaluateResult("val")[2]
       IN train_val_test_results' =
            [train_val_test_results EXCEPT
                !.val_accuracies = Append(@, val_accuracy),
                !.val_aurocs = Append(@, val_auroc)]
    /\ dr_epoch' = dr_epoch + 1
    /\ dr_pc' = "epoch_loop"
    /\ UNCHANGED <<cfgVars, engVars, plVars, a2aVars, grpVars, dr_epochs, dr_len, dr_log>>

\* `test_accuracy, test_auroc = _evaluate(...)`, the two assignments, return.
TestReturns ==
    /\ dr_pc = "test_ret"
    /\ LET test_accuracy == EvaluateResult("test")[1]
           test_auroc == EvaluateResult("test")[2]
       IN train_val_test_results' =
            [train_val_test_results EXCEPT
                !.test_accuracy = test_accuracy,
                !.test_auroc = test_auroc]
    /\ dr_pc' = "done"
    /\ UNCHANGED <<cfgVars, engVars, plVars, a2aVars, grpVars, dr_epochs, dr_epoch, dr_len,
                   dr_log>>

DriverNext ==
    \/ EpochLoop
    \/ DriverCall
    \/ ConnectNext
    \/ ConnectPut
    \/ NextBatch
    \/ ZeroGrad
    \/ WaitForBatch
    \/ Forward
    \/ Backward
    \/ SetCur
    \/ CopyBatchToGpu
    \/ OptimizerStep
    \/ StagingCompletes
    \/ DriverCatch
    \/ DriverPropagate
    \/ TrainReturns
    \/ ValReturns
    \/ TestReturns

\* The interpreter always takes the next step of a running program.
SpecDriver == DriverInit /\ [][DriverNext]_vars /\ WF_vars(DriverNext)

Returns == {"train_ret", "val_ret", "test_ret"}

\* C14: every phase loop of _train and _evaluate is left, whatever the length
\* of its loader, and a StopIteration raised by progress() leaves it by break,
\* as the normal end of the phase: it never leaves the driver as an error.
C14_PhaseLoopsTerminate ==
    /\ \A st \in Stages : (dr_pc = st) ~> (dr_pc # st)
    /\ [][(dr_pc \in Stages /\ raised = "StopIteration" /\ dr_pc' # dr_pc)
              => (dr_pc' \in Returns /\ Len(dr_log') = Len(dr_log) + 1)]_vars

\* A run whose three loaders hold 0, 1 and MaxBatches batches has returned:
\* each of the three loops was ended by StopIteration.
C14_Witness ==
    /\ dr_pc = "done"
    /\ ~is_dist
    /\ dr_len = [st \in Stages |-> IF st = "train" THEN 0
                                   ELSE IF st = "val" THEN 1 ELSE MaxBatches]
    /\ Len(dr_log) = 3
    /\ dr_log[3].ok_calls = MaxBatches - 1

\* C15 (as claimed): a run of E epochs that returns has run train, validation
\* and test, in this order, in every epoch, and holds one validation entry
\* per epoch.
C15_ThreePhasesPerEpoch ==
    dr_pc = "done"
        => /\ Len(dr_log) = 3 * dr_epochs
           /\ \A k \in 1..Len(dr_log) :
                 /\ dr_log[k].epoch = (k - 1) \div 3
                 /\ dr_log[k].stage = IF k % 3 = 1 THEN "train"
                                      ELSE IF k % 3 = 2 THEN "val" ELSE "test"
           /\ Len(train_val_test_results.val_accuracies) = dr_epochs
           /\ Len(train_val_test_results.val_aurocs) = dr_epochs

\* The k-th phase of a run of E epochs: train and validation alternate for E
\* epochs, then the test phase runs once.
PhaseAt(k) ==
    IF k > 2 * dr_epochs THEN [stage |-> "test", epoch |-> dr_epochs]
    ELSE [stage |-> IF k % 2 = 1 THEN "train" ELSE "val", epoch |-> (k - 1) \div 2]

\* C15 (amended): the phases that end run in the order train, validation of
\* epoch 0, ..., train, validation of epoch E-1, then test once; each returned
\* validation phase adds one entry to each history list, made of its AUROC and
\* its accuracy; the test pair is set exactly when the run returns, and a run
\* that returns has completed all 2E+1 phases.
C15_PhasesPerRun ==
    LET res == train_val_test_results IN
    /\ Len(dr_log) <= 2 * dr_epochs + 1
    /\ \A k \in 1..Len(dr_log) :
          /\ dr_log[k].stage = PhaseAt(k).stage
          /\ dr_log[k].epoch = PhaseAt(k).epoch
    /\ Len(res.val_accuracies) = dr_epoch
    /\ Len(res.val_aurocs) = dr_epoch
    /\ \A e \in 1..Len(res.val_accuracies) :
          /\ {res.val_accuracies[e].metric, res.val_aurocs[e].metric}
                = {"auroc", "accuracy"}
          /\ res.val_accuracies[e].stage = "val"
          /\ res.val_aurocs[e].stage = "val"
    /\ (dr_pc = "done") <=> (res.test_accuracy # None)
    /\ (dr_pc = "done") <=> (res.test_auroc # None)
    /\ dr_pc = "done"
          => /\ Len(dr_log) = 2 * dr_epochs + 1
             /\ dr_epoch = dr_epochs
             /\ {res.test_accuracy.metric, res.test_auroc.metric}
                   = {"auroc", "accuracy"}

\* A run of MaxEpochs epochs over non-empty loaders has returned.
C15_Witness ==
    /\ dr_pc = "done"
    /\ dr_epochs = MaxEpochs
    /\ \A st \in Stages : dr_len[st] >= 2
    /\ Len(dr_log) = 2 * MaxEpochs + 1
    /\ Len(train_val_test_results.val_aurocs) = MaxEpochs

\* ------------------------------------------------ placement on every rank
\* Every rank of the group calls put_data_in_device on its own copy of the
\* same source batch, with the devices in the order of the signature.
PlaceInit ==
    /\ n_batches = 1
    /\ batch_rows \in 1..MaxRows
    /\ is_dist \in BOOLEAN
    /\ world_size \in 1..MaxWorld
    /\ rank = 0
    /\ training = FALSE
    /\ dense_device \in Devices
    /\ sparse_device \in Devices
    /\ EngineInit
    /\ pl_out = [r \in 0..(world_size - 1) |-> None]
    /\ A2AIdle
    /\ DriverIdle
    /\ GroupIdle

PlaceRank(r) ==
    /\ pl_out[r] = None
    /\ pl_out' = [pl_out EXCEPT ![r] =
                    put_data_in_device(Batch(1, batch_rows), dense_device,
                                       sparse_device, is_dist, r, world_size)]
    /\ UNCHANGED <<cfgVars, engVars, a2aVars, drVars, grpVars>>

PlaceNext == \E r \in DOMAIN pl_out : PlaceRank(r)

SpecPlace == PlaceInit /\ [][PlaceNext]_vars

\* ------------------------------------------------------ all-to-all exchange
Workers == 0..(world_size - 1)

\* Extent of a matrix along dim 0 (rows) or dim 1 (columns).
Extent(m, d) == IF d = 0 THEN Len(m) ELSE IF Len(m) = 0 THEN 0 ELSE Len(m[1])

\* The tensor worker w feeds in: torch.randn seeded by the rank, so no two
\* entries of the group are the same value.
InputTensor(w, e0, e1) == [i \in 1..e0 |-> [j \in 1..e1 |-> <<w, i, j>>]]

\* Mutant: the chunks are handed out in the reverse worker order.
Chunk_reversed(m, d, parts, j) ==
    LET c == Extent(m, d) \div parts
        k == parts - 1 - j
    IN IF d = 0
       THEN SubSeq(m, k * c + 1, (k + 1) * c)
       ELSE [i \in 1..Len(m) |-> SubSeq(m[i], k * c + 1, (k + 1) * c)]

\* Chunk j (0-based) of the `parts` equal chunks of m along dim d.
Chunk(m, d, parts, j) ==
    LET c == Extent(m, d) \div parts
    IN IF d = 0
       THEN SubSeq(m, j * c + 1, (j + 1) * c)
       ELSE [i \in 1..Len(m) |-> SubSeq(m[i], j * c + 1, (j + 1) * c)]

\* torch.cat of two matrices along dim d.
Cat2(a, b, d) ==
    IF d = 0 THEN a \o b
    ELSE IF Len(a) = 0 THEN b
    ELSE [i \in 1..Len(a) |-> a[i] \o b[i]]

\* torch.cat of a list of matrices along dim d.
RECURSIVE Cat(_, _)
Cat(ms, d) ==
    IF Len(ms) = 0 THEN << >>
    ELSE IF Len(ms) = 1 THEN ms[1]
    ELSE Cat2(Cat(SubSeq(ms, 1, Len(ms) - 1), d), ms[Len(ms)], d)

\* _collect_tensors(tensor, dim): rank 0 gathers every worker's tensor and
\* concatenates them in rank order along dim.
collect_tensors(tensors, dim) ==
    Cat([k \in 1..world_size |-> tensors[k - 1]], dim)

\* Mutant: every destination is sent the sender's own-rank chunk.
SentChunk_own(w, j) == Chunk(a2a_in[w], a2a_dims[1], world_size, w)

\* The chunk worker w sends to worker j: chunk j of its input along scatter_dim.
SentChunk(w, j) == Chunk(a2a_in[w], a2a_dims[1], world_size, j)

\* Mutant: the received chunks are concatenated along scatter_dim.
Gathered_scatter(w) == Cat([k \in 1..world_size |-> a2a_mail[<<k - 1, w>>]], a2a_dims[1])

\* What worker w assembles: the chunks received, in worker order, along gather_dim.
Gathered(w) == Cat([k \in 1..world_size |-> a2a_mail[<<k - 1, w>>]], a2a_dims[2])

A2AInit ==
    /\ n_batches = 0
    /\ batch_rows = 1
    /\ is_dist = FALSE
    /\ world_size \in 1..MaxWorld
    /\ rank = 0
    /\ training = FALSE
    /\ dense_device = "cuda"
    /\ sparse_device = "cuda"
    /\ EngineInit
    /\ PlaceIdle
    /\ a2a_dims \in {<<0, 1>>, <<1, 0>>}
    /\ \E e0 \in 1..MaxExt, e1 \in 1..MaxExt :
          a2a_in = [w \in Workers |-> InputTensor(w, e0, e1)]
    /\ a2a_pc = [w \in Workers |-> "start"]
    /\ a2a_mail = << >>
    /\ a2a_out = << >>
    /\ a2a_call = "forward"
    /\ a2a_first_in = a2a_in
    /\ a2a_first_out = << >>
    /\ DriverIdle
    /\ GroupIdle

\* Step (1)-(2): worker w splits its input along scatter_dim and sends chunk j
\* to worker j; an extent that world_size does not divide is a ShapeError.
A2ASend(w) ==
    /\ a2a_pc[w] = "start"
    /\ IF Extent(a2a_in[w], a2a_dims[1]) % world_size # 0
       THEN /\ a2a_pc' = [a2a_pc EXCEPT ![w] = "ShapeError"]
            /\ UNCHANGED a2a_mail
       ELSE /\ a2a_pc' = [a2a_pc EXCEPT ![w] = "sent"]
            /\ a2a_mail' = [p \in DOMAIN a2a_mail \cup {<<w, j>> : j \in Workers} |->
                              IF p \in DOMAIN a2a_mail THEN a2a_mail[p]
                              ELSE SentChunk(p[1], p[2])]
    /\ UNCHANGED <<cfgVars, engVars, plVars, drVars, grpVars, a2a_dims, a2a_in, a2a_out,
                   a2aHist>>

\* Step (2)-(3): once chunk w of every worker has arrived, worker w
\* concatenates them along gather_dim and the call returns.
A2ARecv(w) ==
    /\ a2a_pc[w] = "sent"
    /\ \A j \in Workers : <<j, w>> \in DOMAIN a2a_mail
    /\ a2a_out' = [v \in DOMAIN a2a_out \cup {w} |->
                     IF v = w THEN Gathered(w) ELSE a2a_out[v]]
    /\ a2a_mail' = [p \in DOMAIN a2a_mail \ {<<j, w>> : j \in Workers} |-> a2a_mail[p]]
    /\ a2a_pc' = [a2a_pc EXCEPT ![w] = "done"]
    /\ UNCHANGED <<cfgVars, engVars, plVars, drVars, grpVars, a2a_dims, a2a_in, a2aHist>>

\* Mutant: the second call keeps the axis roles of the first.
BackwardDims_same(dims) == dims

\* The axis roles of the reverse exchange: scatter_dim and gather_dim swapped.
BackwardDims(dims) == <<dims[2], dims[1]>>

\* grad = torch.rand_like(output_tensor) on worker r: one fresh value for
\* every element of the output, told apart from the input values by its sign.
GradTensor(r, out) ==
    [i \in 1..Len(out) |-> [j \in 1..Len(out[i]) |-> <<0 - (r + 1), i, j>>]]

\* Every worker, back from its first call, makes a second one with the axis
\* roles swapped: on its own output ("inverse") or on a gradient of the shape
\* of its output ("backward"). The blocking first call is taken to have
\* returned on every worker before the second exchange carries any chunk.
A2ASecondCall(kind) ==
    /\ a2a_call = "forward"
    /\ \A w \in Workers : a2a_pc[w] = "done"
    /\ a2a_call' = kind
    /\ a2a_first_out' = a2a_out
    /\ a2a_in' = IF kind = "inverse" THEN a2a_out
                 ELSE [w \in Workers |-> GradTensor(w, a2a_out[w])]
    /\ a2a_dims' = BackwardDims(a2a_dims)
    /\ a2a_pc' = [w \in Workers |-> "start"]
    /\ a2a_out' = << >>
    /\ UNCHANGED <<cfgVars, engVars, plVars, drVars, grpVars, a2a_mail, a2a_first_in>>

A2ANext ==
    \/ \E w \in Workers : A2ASend(w) \/ A2ARecv(w)
    \/ \E kind \in {"inverse", "backward"} : A2ASecondCall(kind)

SpecA2A == A2AInit /\ [][A2ANext]_vars
\* ----------------------------------------------- properties of the placement
Placed(r) == pl_out[r] # None
AllPlaced == DOMAIN pl_out # {} /\ \A r \in DOMAIN pl_out : Placed(r)

\* The dense shards of all ranks, concatenated in rank order.
DenseShards == [k \in 1..world_size |-> pl_out[k - 1].dense_features.rows]
LabelShards == [k \in 1..world_size |-> pl_out[k - 1].labels.rows]

\* Ranks whose dense shard holds row k of the batch.
Holders(k) ==
    {r \in DOMAIN pl_out :
        \E i \in 1..Len(pl_out[r].dense_features.rows) :
            pl_out[r].dense_features.rows[i] = Row(1, k)}

\* C7: without a distributed loader and with world_size dividing B, rank r
\* keeps rows [r*B/world_size, (r+1)*B/world_size) of the dense features and of
\* the labels and all the sparse features; over all ranks the shards are
\* disjoint, contiguous and cover every row once.
C7_EvenShards ==
    (~is_dist /\ batch_rows % world_size = 0)
        => /\ \A r \in DOMAIN pl_out : Placed(r) =>
                LET q == batch_rows \div world_size
                    shard == SubSeq(SourceRows(1), r * q + 1, (r + 1) * q)
                IN /\ pl_out[r].dense_features.rows = shard
                   /\ pl_out[r].labels.rows = shard
                   /\ pl_out[r].sparse_features.rows = SourceRows(1)
           /\ AllPlaced =>
                /\ Cat(DenseShards, 0) = SourceRows(1)
                /\ Cat(LabelShards, 0) = SourceRows(1)
                /\ \A k \in 1..batch_rows : Cardinality(Holders(k)) = 1

C7_Witness ==
    /\ ~is_dist /\ world_size > 1 /\ batch_rows = world_size * 2 /\ AllPlaced
    /\ Len(pl_out[1].dense_features.rows) = 2

\* C8 (as claimed): a batch whose leading dimension world_size does not divide
\* is rejected with a ShapeError on every rank.
C8_UnevenRejected ==
    (~is_dist /\ batch_rows % world_size # 0)
        => \A r \in DOMAIN pl_out : Placed(r) => pl_out[r].kind = "ShapeError"

\* C8 (amended): such a batch is not rejected: every rank gets a Batch, the
\* first (B mod world_size) ranks one row more than the others (2, 1, 1 rows for
\* B = 4 and world size 3), labels split like the dense features, the sparse
\* features whole; the shards stay contiguous and disjoint and lose no row.
C8_UnevenShards ==
    (~is_dist /\ batch_rows % world_size # 0)
        => /\ \A r \in DOMAIN pl_out : Placed(r) =>
                /\ pl_out[r].kind = "Batch"
                /\ Len(pl_out[r].dense_features.rows) =
                      (batch_rows \div world_size)
                        + (IF r < batch_rows % world_size THEN 1 ELSE 0)
                /\ pl_out[r].labels.rows = pl_out[r].dense_features.rows
                /\ pl_out[r].sparse_features.rows = SourceRows(1)
           /\ AllPlaced =>
                /\ Cat(DenseShards, 0) = SourceRows(1)
                /\ \A k \in 1..batch_rows : Cardinality(Holders(k)) = 1

C8_Witness ==
    /\ ~is_dist /\ world_size = 3 /\ batch_rows = 4 /\ AllPlaced
    /\ Len(pl_out[0].dense_features.rows) = 2
    /\ Len(pl_out[2].dense_features.rows) = 1

\* ------------------------------------------------ properties of the exchange
AllDone == \A w \in Workers : a2a_pc[w] = "done"

\* C10: the exchange only re-shards: the workers' inputs concatenated along
\* gather_dim are the workers' outputs concatenated along scatter_dim, and
\* worker r's output is chunk r (along scatter_dim) of every worker's input,
\* concatenated in worker order along gather_dim; in both directions.
C10_ExchangeReshards ==
    AllDone
        => /\ collect_tensors(a2a_in, a2a_dims[2]) = collect_tensors(a2a_out, a2a_dims[1])
           /\ \A r \in Workers :
                 a2a_out[r] = Cat([k \in 1..world_size |->
                                     Chunk(a2a_in[k - 1], a2a_dims[1], world_size, r)],
                                  a2a_dims[2])

C10_Witness ==
    /\ AllDone /\ world_size = 2 /\ a2a_dims = <<0, 1>>
    /\ Extent(a2a_in[0], 0) = 4 /\ Extent(a2a_in[0], 1) = 4
    /\ Extent(a2a_out[1], 0) = 2 /\ Extent(a2a_out[1], 1) = 8

\* C11: round trip: all_to_all(., a, b) on all workers followed by
\* all_to_all(., b, a) on all workers hands every worker its original tensor.
C11_RoundTrip ==
    (a2a_call = "inverse" /\ AllDone)
        => \A w \in Workers : a2a_out[w] = a2a_first_in[w]

C11_Witness ==
    /\ a2a_call = "inverse" /\ AllDone /\ world_size = 3
    /\ Extent(a2a_first_in[0], a2a_dims[2]) = 3
    /\ Extent(a2a_first_in[0], a2a_dims[1]) = 2
    /\ a2a_first_out[0] # a2a_first_in[0]

\* C12: shape law: a call that returns has an input extent E along scatter_dim
\* that world_size divides, and its output has extent E / W along scatter_dim
\* and G * W along gather_dim; when world_size does not divide E the call
\* fails with ShapeError: it sends nothing and has no output.
C12_ShapeLaw ==
    \A w \in Workers :
        LET E == Extent(a2a_in[w], a2a_dims[1])
            G == Extent(a2a_in[w], a2a_dims[2])
        IN /\ a2a_pc[w] = "done" =>
                /\ E % world_size = 0
                /\ Extent(a2a_out[w], a2a_dims[1]) = E \div world_size
                /\ Extent(a2a_out[w], a2a_dims[2]) = G * world_size
           /\ E % world_size # 0 =>
                /\ a2a_pc[w] \in {"start", "ShapeError"}
                /\ w \notin DOMAIN a2a_out
                /\ \A j \in Workers : <<w, j>> \notin DOMAIN a2a_mail

C12_Witness ==
    /\ a2a_call = "forward" /\ world_size = 2 /\ a2a_dims = <<0, 1>>
    /\ a2a_pc[0] = "done" /\ a2a_pc[1] = "sent"
    /\ Extent(a2a_in[0], 0) = 4 /\ Extent(a2a_in[0], 1) = 2
    /\ Extent(a2a_out[0], 0) = 2 /\ Extent(a2a_out[0], 1) = 4

\* Where the element (i, j) of worker w's first input sits in the outputs of
\* the first call: <<worker, row, column>>.
Landing(w, i, j) ==
    CHOOSE p \in {<<r, i2, j2>> : r \in Workers,
                                  i2 \in 1..(MaxExt * MaxWorld),
                                  j2 \in 1..(MaxExt * MaxWorld)} :
        /\ p[2] <= Len(a2a_first_out[p[1]])
        /\ p[3] <= Len(a2a_first_out[p[1]][p[2]])
        /\ a2a_first_out[p[1]][p[2]][p[3]] = a2a_first_in[w][i][j]

\* C13: gradient adjoint law: the exchange with the axis roles swapped,
\* applied to the output gradient, delivers to every element of every
\* worker's input the gradient of the output element that it became in the
\* forward exchange, in a tensor of the input's shape.
C13_GradientAdjoint ==
    (a2a_call = "backward" /\ AllDone)
        => \A w \in Workers :
              /\ Len(a2a_out[w]) = Len(a2a_first_in[w])
              /\ \A i \in 1..Len(a2a_first_in[w]) :
                    /\ Len(a2a_out[w][i]) = Len(a2a_first_in[w][i])
                    /\ \A j \in 1..Len(a2a_first_in[w][i]) :
                          LET p == Landing(w, i, j)
                          IN a2a_out[w][i][j] = <<0 - (p[1] + 1), p[2], p[3]>>

C13_Witness ==
    /\ a2a_call = "backward" /\ AllDone /\ world_size = 2
    /\ Extent(a2a_first_in[1], 0) = 4 /\ Extent(a2a_first_in[1], 1) = 2
    /\ Extent(a2a_first_out[1], 0) = 2 /\ Extent(a2a_first_out[1], 1) = 4
    /\ a2a_out[1][3][1] = <<0 - 2, 1, 3>>

\* ----------------------------------------- the group of workers in one phase

\* Every worker of the group runs the phase loop of _train (training) or of
\* _evaluate (not training) over its own loader with its own engine; the
\* model's forward and backward passes each hold one collective call.
GroupInit ==
    /\ n_batches = 0
    /\ batch_rows = 1
    /\ is_dist \in BOOLEAN
    /\ world_size \in 1..MaxWorld
    /\ rank = 0
    /\ training \in BOOLEAN
    /\ dense_device = "cuda"
    /\ sparse_device \in Devices
    /\ EngineInit
    /\ PlaceIdle
    /\ A2AIdle
    /\ DriverIdle
    /\ g_len \in [Workers -> 0..MaxBatches]
    /\ g_pc = [w \in Workers |-> "loop"]
    /\ g_iter = [w \in Workers |-> 0]
    /\ g_connected = [w \in Workers |-> FALSE]
    /\ g_slot = [w \in Workers |-> "None"]
    /\ g_joined = [w \in Workers |-> 0]
    /\ g_fwd = [w \in Workers |-> 0]

\* The kind of object put_data_in_device hands back to worker w's engine.
StagedKind(w) ==
    put_data_in_device(Batch(1, batch_rows), sparse_device, dense_device,
                       is_dist, w, world_size).kind

\* The phase loop calls pipe.progress(...): `if not self._connected`.
GroupCall(w) ==
    /\ g_pc[w] = "loop"
    /\ g_pc' = [g_pc EXCEPT ![w] = IF g_connected[w] THEN "next_batch" ELSE "connect"]
    /\ UNCHANGED <<cfgVars, engVars, plVars, a2aVars, drVars, g_len, g_iter,
                   g_connected, g_slot, g_joined, g_fwd>>

\* _connect: pull the first batch and stage it; StopIteration leaves the loop
\* by break.
GroupConnect(w) ==
    /\ g_pc[w] = "connect"
    /\ IF g_iter[w] < g_len[w]
       THEN /\ g_iter' = [g_iter EXCEPT ![w] = @ + 1]
            /\ g_slot' = [g_slot EXCEPT ![w] = StagedKind(w)]
            /\ g_connected' = [g_connected EXCEPT ![w] = TRUE]
            /\ g_pc' = [g_pc EXCEPT ![w] = "next_batch"]
       ELSE /\ g_pc' = [g_pc EXCEPT ![w] = "complete"]
            /\ UNCHANGED <<g_iter, g_slot, g_connected>>
    /\ UNCHANGED <<cfgVars, engVars, plVars, a2aVars, drVars, g_len, g_joined, g_fwd>>

\* progress: next_batch = next(dataloader_iter); StopIteration leaves the loop.
GroupNextBatch(w) ==
    /\ g_pc[w] = "next_batch"
    /\ IF g_iter[w] < g_len[w]
       THEN /\ g_iter' = [g_iter EXCEPT ![w] = @ + 1]
            /\ g_pc' = [g_pc EXCEPT ![w] = "wait_for_batch"]
       ELSE /\ g_pc' = [g_pc EXCEPT ![w] = "complete"]
            /\ UNCHANGED g_iter
    /\ UNCHANGED <<cfgVars, engVars, plVars, a2aVars, drVars, g_len, g_connected,
                   g_slot, g_joined, g_fwd>>

\* _wait_for_batch: with a staging stream, batch.record_stream is called, which
\* a tuple does not have.
GroupWaitForBatch(w) ==
    /\ g_pc[w] = "wait_for_batch"
    /\ g_pc' = [g_pc EXCEPT ![w] =
                 IF HasMemcpyStream /\ g_slot[w] = "tuple" THEN "error" ELSE "forward"]
    /\ UNCHANGED <<cfgVars, engVars, plVars, a2aVars, drVars, g_len, g_iter,
                   g_connected, g_slot, g_joined, g_fwd>>

\* forward: cur_batch.dense_features is read (an AttributeError on a tuple),
\* then the model runs and enters its collective call.
GroupForward(w) ==
    /\ g_pc[w] = "forward"
    /\ IF g_slot[w] = "tuple"
       THEN /\ g_pc' = [g_pc EXCEPT ![w] = "error"]
            /\ UNCHANGED g_joined
       ELSE /\ g_pc' = [g_pc EXCEPT ![w] = "in_forward"]
            /\ g_joined' = [g_joined EXCEPT ![w] = @ + 1]
    /\ UNCHANGED <<cfgVars, engVars, plVars, a2aVars, drVars, g_len, g_iter,
                   g_connected, g_slot, g_fwd>>

\* Every worker of the group has entered the collective call worker w is in.
Matched(w) == \A v \in Workers : g_joined[v] >= g_joined[w]

\* The collective call of the forward pass returns once every peer has
\* entered it; the forward computation is complete.
GroupForwardDone(w) ==
    /\ g_pc[w] = "in_forward"
    /\ Matched(w)
    /\ g_fwd' = [g_fwd EXCEPT ![w] = @ + 1]
    /\ g_pc' = [g_pc EXCEPT ![w] = IF training THEN "backward" ELSE "copy_batch_to_gpu"]
    /\ UNCHANGED <<cfgVars, engVars, plVars, a2aVars, drVars, g_len, g_iter,
                   g_connected, g_slot, g_joined>>

\* losses.backward() enters the collective call of the backward pass.
GroupBackward(w) ==
    /\ g_pc[w] = "backward"
    /\ g_joined' = [g_joined EXCEPT ![w] = @ + 1]
    /\ g_pc' = [g_pc EXCEPT ![w] = "in_backward"]
    /\ UNCHANGED <<cfgVars, engVars, plVars, a2aVars, drVars, g_len, g_iter,
                   g_connected, g_slot, g_fwd>>

GroupBackwardDone(w) ==
    /\ g_pc[w] = "in_backward"
    /\ Matched(w)
    /\ g_pc' = [g_pc EXCEPT ![w] = "copy_batch_to_gpu"]
    /\ UNCHANGED <<cfgVars, engVars, plVars, a2aVars, drVars, g_len, g_iter,
                   g_connected, g_slot, g_joined, g_fwd>>

\* The rest of progress(): the slot is staged again, the optimizer steps, the
\* call returns into the loop.
GroupCopyBatchToGpu(w) ==
    /\ g_pc[w] = "copy_batch_to_gpu"
    /\ g_slot' = [g_slot EXCEPT ![w] = StagedKind(w)]
    /\ g_pc' = [g_pc EXCEPT ![w] = "loop"]
    /\ UNCHANGED <<cfgVars, engVars, plVars, a2aVars, drVars, g_len, g_iter,
                   g_connected, g_joined, g_fwd>>

GroupNext ==
    \E w \in Workers :
        \/ GroupCall(w)
        \/ GroupConnect(w)
        \/ GroupNextBatch(w)
        \/ GroupWaitForBatch(w)
        \/ GroupForward(w)
        \/ GroupForwardDone(w)
        \/ GroupBackward(w)
        \/ GroupBackwardDone(w)
        \/ GroupCopyBatchToGpu(w)

\* Every worker that can take a step eventually takes one.
SpecGroup ==
    GroupInit /\ [][GroupNext]_vars /\ \A w \in 0..(MaxWorld - 1) :
        WF_vars(w \in Workers /\ (\/ GroupCall(w) \/ GroupConnect(w) \/ GroupNextBatch(w)
                                  \/ GroupWaitForBatch(w) \/ GroupForward(w)
                                  \/ GroupForwardDone(w) \/ GroupBackward(w)
                                  \/ GroupBackwardDone(w) \/ GroupCopyBatchToGpu(w)))

\* ------------------------------------------------- properties of the group

\* Every worker's loader yields the same number of batches.
SameLength == \A v, w \in Workers : g_len[v] = g_len[w]

InCollective(w) == g_pc[w] \in {"in_forward", "in_backward"}

Ended(w) == g_pc[w] \in {"complete", "error"}

\* C21 (as claimed): with loaders of the same length on every worker, all
\* workers complete the same number of forward computations, no worker waits
\* in a collective call that a peer which has left the phase never entered,
\* and every worker reaches phase completion.
C21_AllWorkersComplete ==
    /\ [](SameLength =>
            \A v, w \in Workers :
                /\ (Ended(v) /\ Ended(w)) => g_fwd[v] = g_fwd[w]
                /\ (InCollective(w) /\ Ended(v)) => g_joined[v] >= g_joined[w])
    /\ <>(SameLength => \A w \in Workers : g_pc[w] = "complete")
====
